---- MODULE Spec2Model ----
(***************************************************************************)
(* State-machine model of the league signup application (src/app.py):      *)
(* the enrollment window calculator, the force-close marker, the CSV       *)
(* record store with its lock file, the duplicate guard and the name       *)
(* normalizer, together with the two script handlers that mutate the store *)
(* (the signup form and the operator's edit/delete form).                  *)
(*                                                                         *)
(* Text is modelled as a sequence of one-character strings.  The column    *)
(* names of the source are transliterated: ID, time (submit time), name    *)
(* (game name), th (town hall level), fill (substitution preference).      *)
(***************************************************************************)
EXTENDS Integers, Sequences, FiniteSets, TLC

(***************************************************************************)
(* Bounds of the model                                                     *)
(***************************************************************************)
\* total number of script runs (form submissions) started in one behaviour
MaxRuns == 4
\* largest number of data rows of a snapshot file given to load_data alone
MaxFileRows == 2
\* largest number of sleeps of file_lock that fit into timeout_seconds
MaxRetries == 2

\* the sessions (browser tabs) whose script runs may interleave
Procs == {1, 2}

(***************************************************************************)
(* Text                                                                    *)
(***************************************************************************)
SP == " "

RECURSIVE Rep(_, _)
Rep(c, n) == IF n = 0 THEN <<>> ELSE <<c>> \o Rep(c, n - 1)

RECURSIVE lstrip(_)
lstrip(s) == IF s # <<>> /\ Head(s) = SP THEN lstrip(Tail(s)) ELSE s

RECURSIVE rstrip(_)
rstrip(s) ==
    IF s # <<>> /\ s[Len(s)] = SP THEN rstrip(SubSeq(s, 1, Len(s) - 1)) ELSE s

strip(s) == rstrip(lstrip(s))

\* length of the leading run of non-whitespace characters of s
RECURSIVE WordLen(_)
WordLen(s) == IF s = <<>> \/ Head(s) = SP THEN 0 ELSE 1 + WordLen(Tail(s))

\* str.split(): the maximal runs of non-whitespace characters, in order
RECURSIVE split(_)
split(s) ==
    LET t == lstrip(s)
    IN  IF t = <<>> THEN <<>>
        ELSE <<SubSeq(t, 1, WordLen(t))>>
                 \o split(SubSeq(t, WordLen(t) + 1, Len(t)))

\* " ".join(words)
RECURSIVE join(_)
join(ws) ==
    IF ws = <<>> THEN <<>>
    ELSE IF Len(ws) = 1 THEN ws[1]
    ELSE ws[1] \o <<SP>> \o join(Tail(ws))

normalize_name(name) == join(split(strip(name)))

(***************************************************************************)
(* Instants.  An instant is <<year, month, day, second of day, fraction>>; *)
(* the fraction is the sub-second part (0 = exactly on the second).        *)
(* strftime("%Y-%m-%d %H:%M:%S") keeps the first four components.          *)
(***************************************************************************)
RECURSIVE LexLess(_, _)
LexLess(a, b) ==
    IF a = <<>> \/ b = <<>> THEN FALSE
    ELSE IF Head(a) # Head(b) THEN Head(a) < Head(b)
    ELSE LexLess(Tail(a), Tail(b))

TimeLeq(a, b) == a = b \/ LexLess(a, b)

\* (mutant) the December and January cases are forgotten
get_signup_window_NoRollover(now) ==
    IF now[3] >= 20
    THEN << <<now[1], now[2], 20, 0, 0>>, <<now[1], now[2] + 1, 2, 86399, 0>> >>
    ELSE << <<now[1], now[2] - 1, 20, 0, 0>>, <<now[1], now[2], 2, 86399, 0>> >>

get_signup_window(now) ==
    LET y == now[1]
        m == now[2]
        d == now[3]
    IN  IF d >= 20
        THEN <<  <<y, m, 20, 0, 0>>,
                 IF m = 12 THEN <<y + 1, 1, 2, 86399, 0>>
                           ELSE <<y, m + 1, 2, 86399, 0>>  >>
        ELSE <<  IF m = 1 THEN <<y - 1, 12, 20, 0, 0>>
                          ELSE <<y, m - 1, 20, 0, 0>>,
                 <<y, m, 2, 86399, 0>>  >>

\* (mutant) always the 20th of the month of now
get_next_signup_start_SameMonth(now) == <<now[1], now[2], 20, 0, 0>>

get_next_signup_start(now) ==
    IF now[3] < 20 THEN <<now[1], now[2], 20, 0, 0>>
    ELSE IF now[2] = 12 THEN <<now[1] + 1, 1, 20, 0, 0>>
    ELSE <<now[1], now[2] + 1, 20, 0, 0>>

\* start <= now <= end of the window computed for now
InWindow(now) ==
    LET w == get_signup_window(now)
    IN  TimeLeq(w[1], now) /\ TimeLeq(now, w[2])

\* (mutant) the force-close marker is not looked at
is_signup_open_IgnoresGate(flag, now) ==
    LET w == get_signup_window(now)
    IN  TimeLeq(w[1], now) /\ TimeLeq(now, w[2])

is_signup_open(flag, now) == IF flag THEN FALSE ELSE InWindow(now)

\* the text written by strftime: the sub-second part is dropped
strftime(now) == <<now[1], now[2], now[3], now[4]>>

\* a time cell that pandas cannot parse (to_datetime gives NaT)
BadTime == <<0, 0, 0, 0>>
NaT == <<0, 0, 0, 0, 0>>

\* pd.to_datetime(errors="coerce") then tz_localize: the instant of a cell
parse_submit_time(cell) ==
    IF cell = BadTime THEN NaT ELSE <<cell[1], cell[2], cell[3], cell[4], 0>>

\* Series.between(left, right), inclusive on both ends; NaT is in no interval
between(t, left, right) ==
    t # NaT /\ TimeLeq(left, t) /\ TimeLeq(t, right)

(***************************************************************************)
(* The CSV snapshot and the DataFrame read from it.                        *)
(*                                                                         *)
(* A file is [kind, hasID, rows]: kind is "missing", "unparsable" (read_csv*)
(* raises) or "table"; hasID says whether the header has an ID column.     *)
(* An ID cell is <<"int", n>>, <<"nan", 0>> (empty cell) or <<"str", 0>>   *)
(* (text that is no number).  A name cell is text.                         *)
(***************************************************************************)
NaN == <<"#NaN">>

\* the values pandas.read_csv reads as missing (its default na_values, those
\* the names of the model can spell).  Names made of digits, which read_csv
\* would turn into numbers, are not among the inputs.
NA_VALUES == { <<>>, <<"N", "A">>, <<"n", "a", "n">> }

\* read_csv on one name cell
ReadNameCell(cell) == IF cell \in NA_VALUES THEN NaN ELSE cell

\* to_csv on one name value (na_rep = "")
WriteNameCell(v) == IF v = NaN THEN <<>> ELSE v

\* Series.astype(str) on one name value
astype_str(v) == IF v = NaN THEN <<"n", "a", "n">> ELSE v

MissingFile == [kind |-> "missing", hasID |-> TRUE, rows |-> <<>>]

read_csv(file) ==
    [hasID |-> file.hasID,
     rows  |-> [i \in 1..Len(file.rows) |->
                   [file.rows[i] EXCEPT !.name = ReadNameCell(@)]]]

\* pd.to_numeric(errors="coerce").fillna(0).astype(int) on one ID value
to_numeric_id(v) == IF v[1] = "int" THEN v[2] ELSE 0

\* ensure_schema on a frame whose ID values are still cells.  The loop over
\* COLUMNS gives a frame without ID column an ID column of empty strings, so
\* "ID" is always a column when the insert is reached, and insert raises
\* ValueError (column already exists) whenever it is reached: when every ID
\* is missing, which includes the frame with no rows.
ensure_schema(df) ==
    LET withID == IF df.hasID THEN df.rows
                  ELSE [i \in 1..Len(df.rows) |->
                           [df.rows[i] EXCEPT !.ID = <<"str", 0>>]]
        allNa  == \A i \in 1..Len(withID) : withID[i].ID[1] = "nan"
    IN  IF allNa
        THEN [ok |-> FALSE, rows |-> <<>>]
        ELSE [ok |-> TRUE,
              rows |-> [i \in 1..Len(withID) |->
                           [withID[i] EXCEPT !.ID = to_numeric_id(@)]]]

load_data(file) ==
    IF file.kind = "missing" THEN [ok |-> TRUE, rows |-> <<>>]
    ELSE IF file.kind = "unparsable"
         THEN ensure_schema([hasID |-> TRUE, rows |-> <<>>])
         ELSE ensure_schema(read_csv(file))

\* a frame of the program (integer IDs) as ensure_schema receives it
AsFrame(rows) ==
    [hasID |-> TRUE,
     rows  |-> [i \in 1..Len(rows) |-> [rows[i] EXCEPT !.ID = <<"int", @>>]]]

\* df.to_csv(DATA_FILE, index=False)
to_csv(rows) ==
    [kind  |-> "table",
     hasID |-> TRUE,
     rows  |-> [i \in 1..Len(rows) |->
                   [rows[i] EXCEPT !.ID = <<"int", @>>,
                                   !.name = WriteNameCell(@)]]]

IdsOf(rows) == {rows[i].ID : i \in 1..Len(rows)}

SetMax(S) == CHOOSE x \in S : \A y \in S : y <= x

\* (mutant) the next ID is taken from the number of rows
NextId_RowCount(rows) == Len(rows) + 1

\* (mutant) the next ID is the largest ID, the increment forgotten
NextId_NoIncrement(rows) ==
    IF rows = <<>> THEN 1 ELSE CHOOSE x \in {rows[i].ID : i \in 1..Len(rows)} :
                                  \A i \in 1..Len(rows) : rows[i].ID <= x

\* next_id = df["ID"].max() + 1 if not df.empty else 1
NextId(rows) == IF rows = <<>> THEN 1 ELSE SetMax(IdsOf(rows)) + 1

\* pd.concat([df, pd.DataFrame([entry])])
add_entry_frame(rows, entry) ==
    Append(rows, [entry EXCEPT !.ID = NextId(rows)])

\* create_entry(name, th, fill) at instant now; the ID is filled by add_entry
create_entry(now, name, th, fill) ==
    [ID |-> 0, time |-> strftime(now), name |-> name, th |-> th, fill |-> fill]

\* lines 254-263: is the candidate name already in the round [start, end]?
duplicated(rows, name, start, end) ==
    \E i \in 1..Len(rows) :
        /\ between(parse_submit_time(rows[i].time), start, end)
        /\ normalize_name(astype_str(rows[i].name)) = name

(***************************************************************************)
(* Inputs                                                                  *)
(***************************************************************************)
TownhallOptions == <<"TH18", "TH17", "TH16", "TH16below">>
FillOptions == <<"fill", "nofill">>

\* what a user may type into a name field
NameInputs ==
    { <<SP>>,
      <<SP, "a", SP, SP, "b">>,
      <<"a", SP, "b">>,
      <<"N", "A">>,
      Rep("x", 25) }

\* what the operator may type into the edit form's name field
EditNameInputs ==
    { <<SP>>,
      <<"a", SP, SP, "b">>,
      Rep("x", 25) }

\* the (town hall, substitution) selection of a submission, and of an edit
SubmitSelections == { <<TownhallOptions[1], FillOptions[1]>> }
EditSelections == { <<TownhallOptions[2], FillOptions[2]>> }

\* the instants the clock passes through: the last second of a round and
\* the first second after it
Timeline ==
    << <<2026, 1, 2, 86399, 0>>,
       <<2026, 1, 3, 0, 0>> >>

(***************************************************************************)
(* State                                                                   *)
(***************************************************************************)
VARIABLES
    file,      \* DATA_FILE
    lock,      \* LOCK_FILE: 0 when absent, else the session that created it
    flag,      \* FORCE_CLOSE_FILE exists
    clock,     \* index into Timeline of the current instant
    pc,        \* per session: where its script run is
    kind,      \* per session: "submit", "edit" or "delete"
    loc,       \* per session: the run's local values
    runs,      \* script runs started so far
    wrote,     \* history: has the session's current run written the snapshot
    usedIds    \* history: every ID that was ever in a persisted snapshot

vars == <<file, lock, flag, clock, pc, kind, loc, runs, wrote, usedIds>>

now_cn == Timeline[clock]

NoLoc == [now |-> NaT, name |-> <<>>, th |-> "", fill |-> "", sel |-> 0,
          df |-> <<>>, waited |-> 0]

\* a run has ended (or none has started)
Terminal == {"idle", "done", "closed", "rej_empty", "rej_long", "rej_dup",
             "timeout", "notfound", "crashed", "write_error"}

Init ==
    /\ file = MissingFile
    /\ lock = 0
    /\ flag = FALSE
    /\ clock = 1
    /\ pc = [p \in Procs |-> "idle"]
    /\ kind = [p \in Procs |-> "submit"]
    /\ loc = [p \in Procs |-> NoLoc]
    /\ runs = 0
    /\ wrote = [p \in Procs |-> FALSE]
    /\ usedIds = {}

\* the run of session p ends in state s
End(p, s) ==
    /\ pc' = [pc EXCEPT ![p] = s]
    /\ loc' = [loc EXCEPT ![p] = NoLoc]

(***************************************************************************)
(* The lock file (file_lock)                                               *)
(***************************************************************************)
\* (mutant) the lock file is opened without O_EXCL
ExclusiveCreate_NoExcl(l) == TRUE

\* os.open(LOCK_FILE, O_CREAT | O_EXCL | O_WRONLY) succeeds
ExclusiveCreate(l) == l = 0

\* the finally clause: os.remove(LOCK_FILE)
RemoveLock(l) == 0

Acquire(p) ==
    /\ pc[p] = "lock"
    /\ ExclusiveCreate(lock)
    /\ lock' = p
    /\ pc' = [pc EXCEPT ![p] = "cs"]
    /\ UNCHANGED <<file, flag, clock, kind, loc, runs, wrote, usedIds>>

\* (mutant) the timed-out writer goes on to write without the lock
LockTimeout_WritesAnyway(p) ==
    /\ pc[p] = "lock"
    /\ lock # 0
    /\ file' = to_csv(loc[p].df)
    /\ End(p, "timeout")
    /\ UNCHANGED <<lock, flag, clock, kind, runs, wrote, usedIds>>

\* the creation failed and more than timeout_seconds have passed: the
\* TimeoutError leaves file_lock before the try/finally is entered.  The
\* waiting time is not measured: the step is possible whenever the creation
\* fails; a failed creation followed by sleep(0.12) changes nothing.
LockTimeout(p) ==
    /\ pc[p] = "lock"
    /\ ~ExclusiveCreate(lock)
    /\ End(p, "timeout")
    /\ UNCHANGED <<file, lock, flag, clock, kind, runs, wrote, usedIds>>

\* inside "with file_lock()": to_csv, then the lock file is removed.
\* to_csv (open, truncate, write, close) is one step, and so is the removal
\* that follows it: no session reads the file half written.  to_excel
\* writes another file and its failure is swallowed.
Write(p) ==
    /\ pc[p] = "cs"
    /\ file' = to_csv(loc[p].df)
    /\ lock' = RemoveLock(lock)
    /\ wrote' = [wrote EXCEPT ![p] = TRUE]
    /\ usedIds' = usedIds \cup IdsOf(loc[p].df)
    /\ End(p, "done")
    /\ UNCHANGED <<flag, clock, kind, runs>>

\* (mutant) the loop of file_lock sleeps again whatever time has passed:
\* the sleeps are not counted up
Retry_Unbounded(p) ==
    /\ pc[p] = "lock"
    /\ lock # 0
    /\ loc' = [loc EXCEPT ![p].waited = 1 - @]
    /\ UNCHANGED <<file, lock, flag, clock, pc, kind, runs, wrote, usedIds>>

\* the creation failed and no more than timeout_seconds have passed:
\* sleep(0.12), then the loop tries again.  Every sleep takes its time, so
\* only MaxRetries of them fit into timeout_seconds.
Retry(p) ==
    /\ pc[p] = "lock"
    /\ ~ExclusiveCreate(lock)
    /\ loc[p].waited < MaxRetries
    /\ loc' = [loc EXCEPT ![p].waited = @ + 1]
    /\ UNCHANGED <<file, lock, flag, clock, pc, kind, runs, wrote, usedIds>>

\* a snapshot file cut short: nothing that read_csv can parse
TruncatedFile == [kind |-> "unparsable", hasID |-> TRUE, rows |-> <<>>]

\* (mutant) the lock file is not removed when the write raises
WriteFail_KeepsLock(p) ==
    /\ pc[p] = "cs"
    /\ file' \in {file, TruncatedFile}
    /\ End(p, "write_error")
    /\ UNCHANGED <<lock, flag, clock, kind, runs, wrote, usedIds>>

\* inside "with file_lock()": to_csv raises (the file cannot be opened, or
\* the disk is full after it was truncated); the finally clause removes the
\* lock file and the error ends the run
WriteFail(p) ==
    /\ pc[p] = "cs"
    /\ file' \in {file, TruncatedFile}
    /\ lock' = RemoveLock(lock)
    /\ End(p, "write_error")
    /\ UNCHANGED <<flag, clock, kind, runs, wrote, usedIds>>

\* save_full_data up to the lock: ensure_schema(df) raises or gives the frame
\* that will be written
SaveFullData(p, rows) ==
    LET es == ensure_schema(AsFrame(rows))
    IN  IF es.ok
        THEN /\ pc' = [pc EXCEPT ![p] = "lock"]
             /\ loc' = [loc EXCEPT ![p].df = es.rows]
        ELSE End(p, "crashed")

(***************************************************************************)
(* The signup form (lines 218-273)                                         *)
(***************************************************************************)
\* a script run starts: now and the round window are computed (218-219)
StartSubmit(p) ==
    /\ pc[p] \in Terminal
    /\ runs < MaxRuns
    /\ runs' = runs + 1
    /\ kind' = [kind EXCEPT ![p] = "submit"]
    /\ pc' = [pc EXCEPT ![p] = "open_check"]
    /\ loc' = [loc EXCEPT ![p] = [NoLoc EXCEPT !.now = now_cn]]
    /\ wrote' = [wrote EXCEPT ![p] = FALSE]
    /\ UNCHANGED <<file, lock, flag, clock, usedIds>>

\* is_signup_open() is false: no form
SubmitClosed(p) ==
    /\ pc[p] = "open_check"
    /\ ~is_signup_open(flag, now_cn)
    /\ End(p, "closed")
    /\ UNCHANGED <<file, lock, flag, clock, kind, runs, wrote, usedIds>>

NameEmpty(name) == name = <<>>
NameTooLong(name) == Len(name) > 24

\* the form is shown and submitted with a name that is refused (246-252)
SubmitInvalidName(p) ==
    /\ pc[p] = "open_check"
    /\ is_signup_open(flag, now_cn)
    /\ \E raw \in NameInputs :
          LET name == normalize_name(raw)
          IN  \/ NameEmpty(name) /\ End(p, "rej_empty")
              \/ ~NameEmpty(name) /\ NameTooLong(name) /\ End(p, "rej_long")
    /\ UNCHANGED <<file, lock, flag, clock, kind, runs, wrote, usedIds>>

\* the form is shown and submitted with a name that passes validation
SubmitValidName(p) ==
    /\ pc[p] = "open_check"
    /\ is_signup_open(flag, now_cn)
    /\ \E raw \in NameInputs, s \in SubmitSelections :
          LET name == normalize_name(raw)
          IN  /\ ~NameEmpty(name)
              /\ ~NameTooLong(name)
              /\ loc' = [loc EXCEPT ![p].name = name, ![p].th = s[1],
                                    ![p].fill = s[2]]
    /\ pc' = [pc EXCEPT ![p] = "dup_check"]
    /\ UNCHANGED <<file, lock, flag, clock, kind, runs, wrote, usedIds>>

\* the duplicate check of lines 254-263 on the snapshot loaded now, within
\* the window computed when the run started
IsDuplicate(p) ==
    LET w == get_signup_window(loc[p].now)
    IN  duplicated(load_data(file).rows, loc[p].name, w[1], w[2])

DupCheckReject(p) ==
    /\ pc[p] = "dup_check"
    /\ IF load_data(file).ok
       THEN IsDuplicate(p) /\ End(p, "rej_dup")
       ELSE End(p, "crashed")
    /\ UNCHANGED <<file, lock, flag, clock, kind, runs, wrote, usedIds>>

DupCheckPass(p) ==
    /\ pc[p] = "dup_check"
    /\ load_data(file).ok
    /\ ~IsDuplicate(p)
    /\ pc' = [pc EXCEPT ![p] = "add"]
    /\ UNCHANGED <<file, lock, flag, clock, kind, loc, runs, wrote, usedIds>>

\* add_entry(create_entry(...)) up to the lock: the entry is stamped, the
\* snapshot is loaded again, the ID assigned and the row appended
AddEntry(p) ==
    /\ pc[p] = "add"
    /\ LET ld == load_data(file)
           e  == create_entry(now_cn, loc[p].name, loc[p].th, loc[p].fill)
       IN  IF ld.ok
           THEN SaveFullData(p, add_entry_frame(ld.rows, e))
           ELSE End(p, "crashed")
    /\ UNCHANGED <<file, lock, flag, clock, kind, runs, wrote, usedIds>>

(***************************************************************************)
(* The operator's edit/delete form (lines 320-444)                         *)
(***************************************************************************)
\* full_df.at[idx, ...] = ... for the first row whose ID is sel (432-435)
update_frame(rows, sel, name, th, fill) ==
    LET idx == CHOOSE i \in 1..Len(rows) :
                   /\ rows[i].ID = sel
                   /\ \A j \in 1..(i - 1) : rows[j].ID # sel
    IN  [rows EXCEPT ![idx] = [@ EXCEPT !.name = name, !.th = th,
                                        !.fill = fill]]

\* full_df[full_df["ID"] != selected_id] (441)
delete_frame(rows, sel) == SelectSeq(rows, LAMBDA r : r.ID # sel)

\* the edit form refuses the name
EditNameRefused(name) == NameEmpty(name)

\* a script run with the edit form submitted starts: the list is loaded
\* (320), it is not empty, an ID of it is selected, and "save" or "delete"
\* was pressed with the form's values
StartAdmin(p) ==
    /\ pc[p] \in Terminal
    /\ runs < MaxRuns
    /\ load_data(file).ok
    /\ load_data(file).rows # <<>>
    /\ runs' = runs + 1
    /\ \E k \in {"edit", "delete"}, sel \in IdsOf(load_data(file).rows) :
          /\ kind' = [kind EXCEPT ![p] = k]
          /\ IF k = "edit"
             THEN \E raw \in EditNameInputs, s \in EditSelections :
                     loc' = [loc EXCEPT ![p] =
                                [NoLoc EXCEPT !.sel = sel,
                                              !.name = normalize_name(raw),
                                              !.th = s[1], !.fill = s[2]]]
             ELSE loc' = [loc EXCEPT ![p] = [NoLoc EXCEPT !.sel = sel]]
    /\ pc' = [pc EXCEPT ![p] = "a_row"]
    /\ wrote' = [wrote EXCEPT ![p] = FALSE]
    /\ UNCHANGED <<file, lock, flag, clock, usedIds>>

\* lines 402-403: the row of the selected ID is looked up in a fresh load;
\* .iloc[0] raises IndexError when the row is gone
AdminRow(p) ==
    /\ pc[p] = "a_row"
    /\ IF load_data(file).ok /\ loc[p].sel \in IdsOf(load_data(file).rows)
       THEN pc' = [pc EXCEPT ![p] = "a_handler"] /\ loc' = loc
       ELSE End(p, "crashed")
    /\ UNCHANGED <<file, lock, flag, clock, kind, runs, wrote, usedIds>>

\* lines 424-426: the ID is no longer in the snapshot loaded by the handler
AdminNotFound(p) ==
    /\ pc[p] = "a_handler"
    /\ IF load_data(file).ok
       THEN loc[p].sel \notin IdsOf(load_data(file).rows)
               /\ End(p, "notfound")
       ELSE End(p, "crashed")
    /\ UNCHANGED <<file, lock, flag, clock, kind, runs, wrote, usedIds>>

\* lines 428-431: save pressed with a name that is refused
AdminEditRefused(p) ==
    /\ pc[p] = "a_handler"
    /\ kind[p] = "edit"
    /\ load_data(file).ok
    /\ loc[p].sel \in IdsOf(load_data(file).rows)
    /\ EditNameRefused(loc[p].name)
    /\ End(p, "rej_empty")
    /\ UNCHANGED <<file, lock, flag, clock, kind, runs, wrote, usedIds>>

\* lines 432-436: the fields are overwritten and the frame is saved
AdminEdit(p) ==
    /\ pc[p] = "a_handler"
    /\ kind[p] = "edit"
    /\ load_data(file).ok
    /\ loc[p].sel \in IdsOf(load_data(file).rows)
    /\ ~EditNameRefused(loc[p].name)
    /\ SaveFullData(p, update_frame(load_data(file).rows, loc[p].sel,
                                    loc[p].name, loc[p].th, loc[p].fill))
    /\ UNCHANGED <<file, lock, flag, clock, kind, runs, wrote, usedIds>>

\* lines 440-442: the row is dropped and the frame is saved
AdminDelete(p) ==
    /\ pc[p] = "a_handler"
    /\ kind[p] = "delete"
    /\ load_data(file).ok
    /\ loc[p].sel \in IdsOf(load_data(file).rows)
    /\ SaveFullData(p, delete_frame(load_data(file).rows, loc[p].sel))
    /\ UNCHANGED <<file, lock, flag, clock, kind, runs, wrote, usedIds>>

(***************************************************************************)
(* The force-close switch (lines 381-390): shown only below a non-empty    *)
(* list; pressing either button is a script run of its own                 *)
(***************************************************************************)
EngageForceClose ==
    /\ runs < MaxRuns
    /\ load_data(file).ok
    /\ load_data(file).rows # <<>>
    /\ ~flag
    /\ flag' = TRUE
    /\ runs' = runs + 1
    /\ UNCHANGED <<file, lock, clock, pc, kind, loc, wrote, usedIds>>

ReleaseForceClose ==
    /\ runs < MaxRuns
    /\ load_data(file).ok
    /\ load_data(file).rows # <<>>
    /\ flag
    /\ flag' = FALSE
    /\ runs' = runs + 1
    /\ UNCHANGED <<file, lock, clock, pc, kind, loc, wrote, usedIds>>

\* time passes
Tick ==
    /\ clock < Len(Timeline)
    /\ clock' = clock + 1
    /\ UNCHANGED <<file, lock, flag, pc, kind, loc, runs, wrote, usedIds>>

(***************************************************************************)
(* Specifications                                                          *)
(***************************************************************************)
\* the sessions' runs interleave freely
Next ==
    \/ \E p \in Procs :
          \/ StartSubmit(p)
          \/ SubmitClosed(p)
          \/ SubmitInvalidName(p)
          \/ SubmitValidName(p)
          \/ DupCheckReject(p)
          \/ DupCheckPass(p)
          \/ AddEntry(p)
          \/ Acquire(p)
          \/ LockTimeout(p)
          \/ Write(p)
          \/ StartAdmin(p)
          \/ AdminRow(p)
          \/ AdminNotFound(p)
          \/ AdminEditRefused(p)
          \/ AdminEdit(p)
          \/ AdminDelete(p)
    \/ EngageForceClose
    \/ ReleaseForceClose
    \/ Tick

Spec == Init /\ [][Next]_vars

\* one session only: every run ends before the next starts
SeqNext ==
    \/ StartSubmit(1)
    \/ SubmitClosed(1)
    \/ SubmitInvalidName(1)
    \/ SubmitValidName(1)
    \/ DupCheckReject(1)
    \/ DupCheckPass(1)
    \/ AddEntry(1)
    \/ Acquire(1)
    \/ Write(1)
    \/ StartAdmin(1)
    \/ AdminRow(1)
    \/ AdminEditRefused(1)
    \/ AdminEdit(1)
    \/ AdminDelete(1)
    \/ EngageForceClose
    \/ ReleaseForceClose
    \/ Tick

SeqSpec == Init /\ [][SeqNext]_vars

\* submissions only, interleaving freely
SubmitNext ==
    \/ \E p \in Procs :
          \/ StartSubmit(p)
          \/ SubmitClosed(p)
          \/ SubmitInvalidName(p)
          \/ SubmitValidName(p)
          \/ DupCheckReject(p)
          \/ DupCheckPass(p)
          \/ AddEntry(p)
          \/ Acquire(p)
          \/ LockTimeout(p)
          \/ Write(p)
    \/ Tick

SubmitSpec == Init /\ [][SubmitNext]_vars

\* submissions whose writes may fail and whose waits for the lock are
\* counted
LockNext ==
    \/ \E p \in Procs :
          \/ StartSubmit(p)
          \/ SubmitClosed(p)
          \/ SubmitInvalidName(p)
          \/ SubmitValidName(p)
          \/ DupCheckReject(p)
          \/ DupCheckPass(p)
          \/ AddEntry(p)
          \/ Acquire(p)
          \/ Retry(p)
          \/ LockTimeout(p)
          \/ Write(p)
          \/ WriteFail(p)
    \/ Tick

LockSpec == Init /\ [][LockNext]_vars

\* a session inside the loop of file_lock goes on with the loop; a session
\* inside the critical section may stay there for any time
LockLiveSpec ==
    /\ LockSpec
    /\ \A p \in Procs : WF_vars(Acquire(p) \/ Retry(p) \/ LockTimeout(p))

(***************************************************************************)
(* load_data on a snapshot file that was not written by the program: the   *)
(* list section of the page (line 320) loads whatever file is there        *)
(***************************************************************************)
SeqsUpTo(S, n) == UNION {[1..k -> S] : k \in 0..n}

FileRow(id, name) ==
    [ID |-> id, time |-> strftime(Timeline[1]), name |-> name,
     th |-> TownhallOptions[1], fill |-> FillOptions[1]]

IdCells == { <<"int", 1>>, <<"int", 2>>, <<"nan", 0>>, <<"str", 0>> }
NameCells == { <<"a", SP, "b">>, <<"N", "A">> }

FileInputs ==
    { MissingFile, [kind |-> "unparsable", hasID |-> TRUE, rows |-> <<>>] }
    \cup { [kind |-> "table", hasID |-> TRUE, rows |-> r] :
              r \in SeqsUpTo({FileRow(i, n) : i \in IdCells, n \in NameCells},
                             MaxFileRows) }
    \cup { [kind |-> "table", hasID |-> FALSE, rows |-> r] :
              r \in SeqsUpTo({FileRow(<<"nan", 0>>, n) : n \in NameCells},
                             MaxFileRows) }

LoadInit ==
    /\ file \in FileInputs
    /\ lock = 0
    /\ flag = FALSE
    /\ clock = 1
    /\ pc = [p \in Procs |-> "idle"]
    /\ kind = [p \in Procs |-> "submit"]
    /\ loc = [p \in Procs |-> NoLoc]
    /\ runs = 0
    /\ wrote = [p \in Procs |-> FALSE]
    /\ usedIds = {}

\* df = load_data() of the list section
ViewList(p) ==
    /\ pc[p] = "idle"
    /\ IF load_data(file).ok
       THEN /\ pc' = [pc EXCEPT ![p] = "viewed"]
            /\ loc' = [loc EXCEPT ![p].df = load_data(file).rows]
       ELSE End(p, "crashed")
    /\ UNCHANGED <<file, lock, flag, clock, kind, runs, wrote, usedIds>>

LoadNext == ViewList(1)

LoadSpec == LoadInit /\ [][LoadNext]_vars

(***************************************************************************)
(* The page header and the open check alone (lines 218-228, 274-279), at   *)
(* instants all over the calendar.  The instant the run reads from the     *)
(* clock is drawn at the start and kept in loc[p].now; the store holds one *)
(* entry, so that the operator's force-close switch is shown.              *)
(***************************************************************************)
Instants ==
    { <<2026, m, d, s, f>> :
          m \in {1, 6, 12}, d \in {1, 2, 3, 19, 20, 21},
          s \in {0, 86399}, f \in {0, 1} }

WindowInit ==
    /\ file = [kind |-> "table", hasID |-> TRUE,
               rows |-> <<FileRow(<<"int", 1>>, <<"a", SP, "b">>)>>]
    /\ lock = 0
    /\ flag = FALSE
    /\ clock = 1
    /\ pc = [p \in Procs |-> "idle"]
    /\ kind = [p \in Procs |-> "submit"]
    /\ \E t \in Instants : loc = [p \in Procs |-> [NoLoc EXCEPT !.now = t]]
    /\ runs = 0
    /\ wrote = [p \in Procs |-> FALSE]
    /\ usedIds = {1}

\* what a page run has shown
PageStates == {"idle", "form", "closed_page"}

\* now, current_start, current_end and next_start of the run (218-220)
current_start(p) == get_signup_window(loc[p].now)[1]
current_end(p) == get_signup_window(loc[p].now)[2]
next_start(p) == get_next_signup_start(loc[p].now)

\* a page run starts: the header is computed (218-220)
StartView(p) ==
    /\ pc[p] \in PageStates
    /\ runs < MaxRuns
    /\ pc' = [pc EXCEPT ![p] = "page"]
    /\ runs' = runs + 1
    /\ UNCHANGED <<file, lock, flag, clock, kind, loc, wrote, usedIds>>

\* is_signup_open() is true: the signup form is shown (228-231)
ViewPageOpen(p) ==
    /\ pc[p] = "page"
    /\ is_signup_open(flag, loc[p].now)
    /\ pc' = [pc EXCEPT ![p] = "form"]
    /\ UNCHANGED <<file, lock, flag, clock, kind, loc, runs, wrote, usedIds>>

\* is_signup_open() is false: the page says when the next round starts
\* (274-279)
ViewPageClosed(p) ==
    /\ pc[p] = "page"
    /\ ~is_signup_open(flag, loc[p].now)
    /\ pc' = [pc EXCEPT ![p] = "closed_page"]
    /\ UNCHANGED <<file, lock, flag, clock, kind, loc, runs, wrote, usedIds>>

WindowNext ==
    \/ \E p \in Procs :
          \/ StartView(p)
          \/ ViewPageOpen(p)
          \/ ViewPageClosed(p)
    \/ EngageForceClose
    \/ ReleaseForceClose

WindowSpec == WindowInit /\ [][WindowNext]_vars

(***************************************************************************)
(* Properties                                                              *)
(***************************************************************************)
\* the run of session p commits: its write replaces the snapshot
Commit(p) == pc[p] = "cs" /\ pc'[p] = "done"
AppendCommit(p) == kind[p] = "submit" /\ Commit(p)

\* the row a submission is about to write, and its ID
NewRow(p) == loc[p].df[Len(loc[p].df)]
NewId(p) == NewRow(p).ID

\* the IDs in the cells of the persisted snapshot
FileIds == {file.rows[i].ID[2] : i \in 1..Len(file.rows)}

\* the round of a time cell: the window it lies in, if any
InRound(cell) ==
    LET t == parse_submit_time(cell)
    IN  t # NaT /\ InWindow(t)
SameRound(c1, c2) ==
    /\ InRound(c1)
    /\ InRound(c2)
    /\ get_signup_window(parse_submit_time(c1))
          = get_signup_window(parse_submit_time(c2))

\* C1: under any interleaving of concurrent submissions from the empty
\* store, no snapshot holds two entries of the same enrollment round whose
\* normalized names are equal.
C1_NoDuplicateInRound ==
    \A i, j \in 1..Len(file.rows) :
        (i < j /\ SameRound(file.rows[i].time, file.rows[j].time))
            => normalize_name(file.rows[i].name)
                  # normalize_name(file.rows[j].name)

\* what the run of session p does to a frame when it is applied alone
Effect(p, rows) ==
    CASE kind[p] = "submit" ->
             Append(rows, [NewRow(p) EXCEPT !.ID = NextId(rows)])
      [] kind[p] = "edit" ->
             IF loc[p].sel \in IdsOf(rows)
             THEN update_frame(rows, loc[p].sel, loc[p].name,
                               loc[p].th, loc[p].fill)
             ELSE rows
      [] OTHER -> delete_frame(rows, loc[p].sel)

\* C2: no update is lost: every mutation that completes replaces the
\* snapshot by the result of applying the mutation to the snapshot that is
\* persisted at that moment, so the final snapshot is the result of the
\* completed mutations in the order of their writes.
C2_NoLostUpdate ==
    [][\A p \in Procs :
          Commit(p) => file' = to_csv(Effect(p, load_data(file).rows))]_vars

\* C3: at most one session is inside the critical section, and a session
\* inside it is the one whose lock file exists.
C3_MutualExclusion ==
    /\ Cardinality({p \in Procs : pc[p] = "cs"}) <= 1
    /\ \A p \in Procs : pc[p] = "cs" => lock = p

\* C3 witness: one session is inside the critical section while another
\* one is trying to create the lock file
C3_Contended ==
    \E p, q \in Procs : pc[p] = "cs" /\ pc[q] = "lock"

\* C4 as claimed: the ID an append assigns was never in a persisted
\* snapshot before, deleted entries included.
C4_IdNeverReused ==
    [][\A p \in Procs : AppendCommit(p) => NewId(p) \notin usedIds]_vars

\* C4 as amended: operations running one after another, the ID an append
\* assigns is greater than the ID of every entry in the store at that
\* moment, hence the ID of no entry of the store (an ID that only deleted
\* entries held can be assigned again).
C4_IdFreshInStore ==
    [][\A p \in Procs :
          AppendCommit(p) => \A i \in FileIds : i < NewId(p)]_vars

\* C4 witness: an append is about to write an ID that an entry deleted
\* since has held
C4_ReuseAfterDelete ==
    \E p \in Procs :
        /\ kind[p] = "submit"
        /\ pc[p] = "cs"
        /\ NewId(p) \in usedIds
        /\ NewId(p) \notin FileIds

\* C5: in every reachable snapshot the IDs are pairwise distinct positive
\* integers.
C5_IdsDistinctPositive ==
    /\ \A i \in 1..Len(file.rows) :
          file.rows[i].ID[1] = "int" /\ file.rows[i].ID[2] >= 1
    /\ \A i, j \in 1..Len(file.rows) :
          i # j => file.rows[i].ID # file.rows[j].ID

\* C5 witness: a snapshot with a gap in its IDs (3 is there, 2 is not)
C5_GapInIds ==
    3 \in FileIds /\ 2 \notin FileIds

\* C6: an append (operations running one after another) assigns the
\* largest ID of the store plus one (1 for the empty store), adds exactly
\* that one row at the end and leaves every row that was there unchanged.
C6_AppendAssignsNextId ==
    [][\A p \in Procs :
          AppendCommit(p) =>
              /\ NewId(p) = (IF FileIds = {} THEN 0 ELSE SetMax(FileIds)) + 1
              /\ file'.rows = Append(file.rows, to_csv(<<NewRow(p)>>).rows[1])
      ]_vars

\* C7: delete(id) of an ID of the store (operations running one after
\* another) completes, and the snapshot it persists holds no row with that
\* ID and every other row unchanged; also when the row is the only one.
C7_DeletePersists ==
    [][\A p \in Procs :
          /\ (/\ kind[p] = "delete"
              /\ pc[p] = "a_handler"
              /\ pc'[p] # "a_handler"
              /\ loc[p].sel \in FileIds) => pc'[p] = "lock"
          /\ (kind[p] = "delete" /\ Commit(p)) =>
                 file'.rows = SelectSeq(file.rows,
                                        LAMBDA r : r.ID[2] # loc[p].sel)
      ]_vars

\* C8: load_data never fails: for a missing file, and for a file that is
\* unparsable or holds no rows, it returns the empty table.
C8_LoadNeverFails ==
    \A p \in Procs :
        /\ pc[p] # "crashed"
        /\ (pc[p] = "viewed" /\ (file.kind # "table" \/ file.rows = <<>>))
               => loc[p].df = <<>>

\* the ways an operation is refused
Rejected ==
    {"closed", "rej_empty", "rej_long", "rej_dup", "timeout", "notfound"}

C10_NamesValid ==
    \A i \in 1..Len(file.rows) :
        LET n == file.rows[i].name
        IN  n = normalize_name(n) /\ n # <<>> /\ Len(n) <= 24

\* the position of the first row of the snapshot whose ID cell holds id
RowOf(id) ==
    CHOOSE i \in 1..Len(file.rows) :
        /\ file.rows[i].ID[2] = id
        /\ \A j \in 1..(i - 1) : file.rows[j].ID[2] # id

\* C11: an edit of an ID of the store (operations running one after
\* another) keeps the number of rows, overwrites only name, th and fill of
\* the row with that ID, keeps its ID and submit time, and leaves every
\* field of every other row as it was.
C11_UpdateFrame ==
    [][\A p \in Procs :
          (kind[p] = "edit" /\ Commit(p) /\ loc[p].sel \in FileIds) =>
              /\ Len(file'.rows) = Len(file.rows)
              /\ \A i \in 1..Len(file.rows) :
                    IF i = RowOf(loc[p].sel)
                    THEN /\ file'.rows[i].ID = file.rows[i].ID
                         /\ file'.rows[i].time = file.rows[i].time
                    ELSE file'.rows[i] = file.rows[i]
      ]_vars

\* C12: no entry is appended while the force-close marker exists: under
\* any interleaving of the operator's switch with submissions in flight, a
\* submission never writes the snapshot in a state where FORCE_CLOSE_FILE
\* exists.
C12_NoAppendWhileForceClosed ==
    [][\A p \in Procs : AppendCommit(p) => ~flag]_vars

\* a page run of session p evaluates the open check in this step
ViewStep(p) == pc[p] = "page" /\ pc'[p] \in {"form", "closed_page"}

\* C13: the open check at instant t says "open" iff start <= t <= end for
\* the window of t and the force-close marker is absent; pressing the
\* force-close switch either way leaves the window of every run as it was;
\* and once the marker is removed again, a run at an instant at which the
\* form was shown before is shown the form again.
C13_IsOpenIffInWindowAndGate ==
    [][/\ \A p \in Procs :
             ViewStep(p) =>
                 /\ (pc'[p] = "form") <=>
                        (/\ ~flag
                         /\ TimeLeq(current_start(p), loc[p].now)
                         /\ TimeLeq(loc[p].now, current_end(p)))
                 /\ \A q \in Procs :
                        (~flag /\ pc[q] = "form" /\ loc[q].now = loc[p].now)
                            => pc'[p] = "form"
       /\ flag' # flag =>
             \A p \in Procs :
                 get_signup_window(loc'[p].now) = get_signup_window(loc[p].now)
      ]_vars

\* C13 witness: the marker was created and removed again (two presses of
\* the switch); at the same instant inside the window one session was
\* refused while the marker existed and the other one is shown the form
C13_ClosedThenRestored ==
    \E p, q \in Procs :
        /\ ~flag
        /\ runs >= 4
        /\ pc[p] = "closed_page"
        /\ InWindow(loc[p].now)
        /\ pc[q] = "form"
        /\ loc[q].now = loc[p].now

\* the month after, and the month before, month m of year y
FollowingMonth(y, m) == IF m = 12 THEN <<y + 1, 1>> ELSE <<y, m + 1>>
PreviousMonth(y, m) == IF m = 1 THEN <<y - 1, 12>> ELSE <<y, m - 1>>

\* a page run of session p has computed its header
HeaderDone(p) == pc[p] \in {"page", "form", "closed_page"}

\* C14: for an instant t on day 20 or later the window is (day 20 00:00:00
\* of t's month, day 2 23:59:59 of the following month, January of the
\* next year after December); for t on day 19 or earlier it is (day 20
\* 00:00:00 of the previous month, December of the previous year before
\* January, day 2 23:59:59 of t's month).
C14_WindowBounds ==
    \A p \in Procs :
        HeaderDone(p) =>
            LET t  == loc[p].now
                fm == FollowingMonth(t[1], t[2])
                pm == PreviousMonth(t[1], t[2])
            IN  /\ t[3] >= 20 =>
                      /\ current_start(p) = <<t[1], t[2], 20, 0, 0>>
                      /\ current_end(p) = <<fm[1], fm[2], 2, 86399, 0>>
                /\ t[3] <= 19 =>
                      /\ current_start(p) = <<pm[1], pm[2], 20, 0, 0>>
                      /\ current_end(p) = <<t[1], t[2], 2, 86399, 0>>

\* C14 witness: the form was shown in late December, below a header whose
\* window ends in January of the next year
C14_DecemberRollover ==
    \E p \in Procs :
        /\ pc[p] = "form"
        /\ loc[p].now[2] = 12
        /\ loc[p].now[3] >= 20
        /\ current_end(p) = <<2027, 1, 2, 86399, 0>>

\* C15: the next round start of t is day 20 00:00:00 of t's month when t
\* is before day 20, else of the following month (January of the next year
\* after December); it is not earlier than t; it is not the start of the
\* window of t when t lies inside that window; and it is a round start:
\* the window computed at it starts at it.
C15_NextRoundStart ==
    \A p \in Procs :
        HeaderDone(p) =>
            LET t  == loc[p].now
                fm == FollowingMonth(t[1], t[2])
            IN  /\ next_start(p) = (IF t[3] < 20
                                     THEN <<t[1], t[2], 20, 0, 0>>
                                     ELSE <<fm[1], fm[2], 20, 0, 0>>)
                /\ TimeLeq(t, next_start(p))
                /\ InWindow(t) => next_start(p) # current_start(p)
                /\ get_signup_window(next_start(p))[1] = next_start(p)

\* C15 witness: a page that names the next round start was shown in late
\* December, inside a round closed by the operator: the next round starts
\* in January of the next year
C15_NextStartAfterDecember ==
    \E p \in Procs :
        /\ pc[p] = "closed_page"
        /\ loc[p].now[2] = 12
        /\ loc[p].now[3] >= 20
        /\ InWindow(loc[p].now)
        /\ next_start(p) = <<2027, 1, 20, 0, 0>>

\* some entry of the persisted snapshot has a parsable submit time within
\* [start, end] and a normalized name equal to the candidate
StoredInRound(name, start, end) ==
    \E i \in 1..Len(file.rows) :
        /\ between(parse_submit_time(file.rows[i].time), start, end)
        /\ normalize_name(file.rows[i].name) = name

\* C16: the duplicate check refuses the candidate iff some stored entry has
\* a parsable submit time within the round window (bounds included) and a
\* normalized name equal to the normalized candidate.
C16_DuplicateGuardIff ==
    [][\A p \in Procs :
          (pc[p] = "dup_check" /\ pc'[p] # "dup_check") =>
              ((pc'[p] = "rej_dup") <=>
                   StoredInRound(loc[p].name, get_signup_window(loc[p].now)[1],
                                 get_signup_window(loc[p].now)[2]))
      ]_vars

\* C17: the lock file is there only while the session that created it is
\* inside the critical section: whenever a session leaves the critical
\* section, the write done or failed, the lock file is gone, so that when
\* no session is inside the critical section a writer can create it.
C17_LockReleasedOnExit ==
    /\ lock # 0 => pc[lock] = "cs"
    /\ (\A p \in Procs : pc[p] # "cs") => ExclusiveCreate(lock)

\* C17 witness: the write of one session has failed and the other session
\* has created the lock file after that
C17_AcquiredAfterFailedWrite ==
    \E p, q \in Procs :
        pc[p] = "write_error" /\ pc[q] = "cs" /\ lock = q

\* C18: taking the lock ends: a session in the loop of file_lock gets into
\* the critical section or gives up with the TimeoutError; and the step
\* that gives up is taken while another session's lock file exists, leaves
\* that lock file and the snapshot as they are, and the run has written
\* nothing.
C18_AcquisitionTerminates ==
    /\ \A p \in Procs : (pc[p] = "lock") ~> (pc[p] \in {"cs", "timeout"})
    /\ [][\A p \in Procs :
             (pc[p] = "lock" /\ pc'[p] = "timeout") =>
                 /\ lock # 0
                 /\ lock # p
                 /\ lock' = lock
                 /\ file' = file
                 /\ ~wrote[p]
                 /\ ~wrote'[p]
         ]_vars

\* C18 witness: a session has given up while the other session is still
\* inside the critical section
C18_TimedOutWhileHeld ==
    \E p, q \in Procs : pc[p] = "timeout" /\ pc[q] = "cs" /\ lock = q

\* the rows of the snapshot file carry no ID: the header has no ID column,
\* or every ID cell is empty
FileWithoutIds ==
    /\ file.kind = "table"
    /\ file.rows # <<>>
    /\ \/ ~file.hasID
       \/ \A i \in 1..Len(file.rows) : file.rows[i].ID[1] = "nan"

\* every ID cell of the snapshot file holds an integer
FileWithValidIds ==
    /\ file.kind = "table"
    /\ file.hasID
    /\ \A i \in 1..Len(file.rows) : file.rows[i].ID[1] = "int"

\* C19: load_data of a snapshot whose rows carry no ID gives the rows the
\* IDs 1..n in row order, and load_data of a snapshot whose ID cells hold
\* integers gives every row the ID of its cell.
C19_LoadAssignsIds ==
    \A p \in Procs :
        /\ FileWithoutIds =>
              /\ pc[p] # "crashed"
              /\ pc[p] = "viewed" =>
                    /\ Len(loc[p].df) = Len(file.rows)
                    /\ \A i \in 1..Len(file.rows) : loc[p].df[i].ID = i
        /\ FileWithValidIds =>
              /\ pc[p] # "crashed" \/ file.rows = <<>>
              /\ pc[p] = "viewed" =>
                    /\ Len(loc[p].df) = Len(file.rows)
                    /\ \A i \in 1..Len(file.rows) :
                          loc[p].df[i].ID = file.rows[i].ID[2]

\* C20: the submit time of every entry a submission writes lies inside the
\* round window of that run, the one computed at the start of the run and
\* used by its duplicate check, also when the clock moves on between the
\* start of the run, the open check and the stamping of the entry.
C20_StampInsideWindow ==
    [][\A p \in Procs :
          AppendCommit(p) =>
              between(parse_submit_time(NewRow(p).time),
                      current_start(p), current_end(p))
      ]_vars

====
